---- MODULE Spec2Model ----
(***************************************************************************)
(* A model of scripts/update_news.py: the publication-news updater.        *)
(*                                                                         *)
(* Python strings are TLA+ strings, read character by character with       *)
(* SubSeq(s, i, i); the regular expressions of the script are modelled by  *)
(* explicit left-to-right scanners with the matching rules of Python's re. *)
(* A field that is absent, null or empty and is read with                  *)
(* item.get(key, "") followed by a truth test is the empty string.         *)
(***************************************************************************)
EXTENDS Integers, Sequences, FiniteSets, TLC

VARIABLES
    doi, raw_doi, calls,                          \* normalize_doi under repeated application
    url, dois, extracted,                         \* extract_dois
    paper, item, mapped,                          \* paper_to_news_item
    author_idx, papers, warnings, fetch_pc,       \* fetch_papers
    news_json, auto_items, dry_run, main_pc,      \* main: data/news.json, the fetched items, the last run
    stored, reloaded,                             \* news.json holds what a run wrote; the current run loaded such a list
    edited,                                       \* another writer stored in news.json while the current run waits
    manual, existing_urls, existing_dois, merged, \* merge_news: its argument, tracking sets and result
    index_html, news_html, content, ret           \* update_index_html

\* a variable of a function that the specification at hand does not run
Idle == "idle"

normVars  == <<doi, raw_doi, calls>>
extVars   == <<url, dois, extracted>>
mapVars   == <<paper, item, mapped>>
fetchVars == <<author_idx, papers, warnings, fetch_pc>>
mergeVars ==
    <<news_json, auto_items, dry_run, main_pc, stored, reloaded, edited,
      manual, existing_urls, existing_dois, merged>>
patchVars == <<index_html, news_html, content, ret>>
vars == <<normVars, extVars, mapVars, fetchVars, mergeVars, patchVars>>

IdleNormalize == doi = Idle /\ raw_doi = Idle /\ calls = Idle
IdleExtract   == url = Idle /\ dois = Idle /\ extracted = Idle
IdleMap       == paper = Idle /\ item = Idle /\ mapped = Idle
IdleFetch     == author_idx = Idle /\ papers = Idle /\ warnings = Idle /\ fetch_pc = Idle
IdleMerge ==
    /\ news_json = Idle /\ auto_items = Idle /\ dry_run = Idle /\ main_pc = Idle
    /\ stored = Idle /\ reloaded = Idle /\ edited = Idle
    /\ manual = Idle /\ existing_urls = Idle /\ existing_dois = Idle /\ merged = Idle
IdlePatch     == index_html = Idle /\ news_html = Idle /\ content = Idle /\ ret = Idle

----------------------------------------------------------------------------
(* Characters and strings *)

CharAt(s, i) == SubSeq(s, i, i)

CharsOf(s) == {CharAt(s, i) : i \in 1..Len(s)}

Digits == CharsOf("0123456789")

UpperCase == "ABCDEFGHIJKLMNOPQRSTUVWXYZ"

LowerCase == "abcdefghijklmnopqrstuvwxyz"

\* \w of Python's re, on ASCII
WordChars == CharsOf(UpperCase) \cup CharsOf(LowerCase) \cup Digits \cup {"_"}

\* \s of Python's re, on ASCII
Whitespace == {" ", "\t", "\n", "\r", "\f"}

\* the printable ASCII characters in code-point order: 32 (space) to 95, and 97 to 126
AsciiLow == " !\"#$%&'()*+,-./0123456789:;<=>?@ABCDEFGHIJKLMNOPQRSTUVWXYZ[\\]^_"

AsciiHigh == "abcdefghijklmnopqrstuvwxyz{|}~"

Printable == CharsOf(AsciiLow) \cup CharsOf(AsciiHigh)

\* ord(c); the control characters (tab, newline, ...) sort below the space
Ord(c) ==
    IF c \in CharsOf(AsciiLow)
    THEN 31 + (CHOOSE i \in 1..Len(AsciiLow) : CharAt(AsciiLow, i) = c)
    ELSE IF c \in CharsOf(AsciiHigh)
    THEN 96 + (CHOOSE i \in 1..Len(AsciiHigh) : CharAt(AsciiHigh, i) = c)
    ELSE CASE c = "\t" -> 9 [] c = "\n" -> 10 [] c = "\f" -> 12 [] c = "\r" -> 13

\* str.lower() of one character
LowerChar(c) ==
    IF c \in CharsOf(UpperCase)
    THEN CharAt(LowerCase, CHOOSE i \in 1..Len(UpperCase) : CharAt(UpperCase, i) = c)
    ELSE c

RECURSIVE Lower(_)
Lower(s) ==
    IF s = "" THEN ""
    ELSE LowerChar(CharAt(s, 1)) \o Lower(SubSeq(s, 2, Len(s)))

\* s.rstrip(c): every trailing c removed
RECURSIVE RStrip(_, _)
RStrip(s, c) ==
    IF s # "" /\ CharAt(s, Len(s)) = c
    THEN RStrip(SubSeq(s, 1, Len(s) - 1), c)
    ELSE s

\* the number of characters of class cls that s holds from position p on
RECURSIVE RunLen(_, _, _)
RunLen(s, p, cls) ==
    IF p <= Len(s) /\ CharAt(s, p) \in cls
    THEN 1 + RunLen(s, p + 1, cls)
    ELSE 0

\* the number of characters of class cls that s ends with
RECURSIVE TrailLen(_, _)
TrailLen(s, cls) ==
    IF s # "" /\ CharAt(s, Len(s)) \in cls
    THEN 1 + TrailLen(SubSeq(s, 1, Len(s) - 1), cls)
    ELSE 0

\* the strings made of at most n of the fragments frags, in any order
RECURSIVE Concats(_, _)
Concats(frags, n) ==
    IF n = 0 THEN {""}
    ELSE LET shorter == Concats(frags, n - 1)
         IN  shorter \cup {a \o f : a \in shorter, f \in frags}

\* s.strip(): leading and trailing whitespace removed
RECURSIVE Strip(_)
Strip(s) ==
    IF s # "" /\ CharAt(s, 1) \in Whitespace THEN Strip(SubSeq(s, 2, Len(s)))
    ELSE IF s # "" /\ CharAt(s, Len(s)) \in Whitespace THEN Strip(SubSeq(s, 1, Len(s) - 1))
    ELSE s

\* str(n) of a natural number
RECURSIVE ToStr(_)
ToStr(n) ==
    IF n < 10 THEN CharAt("0123456789", n + 1)
    ELSE ToStr(n \div 10) \o CharAt("0123456789", (n % 10) + 1)

\* the sequences over S of length at most n
SeqsUpTo(S, n) == UNION {[1..k -> S] : k \in 0..n}

\* lit occurs in s at position p
LitAt(s, p, lit) ==
    /\ p >= 1
    /\ p + Len(lit) - 1 <= Len(s)
    /\ SubSeq(s, p, p + Len(lit) - 1) = lit

\* s.find(lit, p): the first position from p on where lit occurs in s, or 0
FindLit(s, lit, p) ==
    LET more == Len(lit) - 1
        hits == {q \in p..(Len(s) - more) : SubSeq(s, q, q + more) = lit}
    IN  IF hits = {} THEN 0 ELSE CHOOSE q \in hits : \A r \in hits : q <= r

\* s.find(c, p): the first position from p on where s holds c, or 0
RECURSIVE IndexOf(_, _, _)
IndexOf(s, c, p) ==
    IF p > Len(s) THEN 0
    ELSE IF CharAt(s, p) = c THEN p
    ELSE IndexOf(s, c, p + 1)

\* s.split(sep) for a one-character separator
RECURSIVE Split(_, _)
Split(s, sep) ==
    LET k == IndexOf(s, sep, 1)
    IN  IF k = 0 THEN <<s>>
        ELSE <<SubSeq(s, 1, k - 1)>> \o Split(SubSeq(s, k + 1, Len(s)), sep)

\* sep.join(parts)
RECURSIVE Join(_, _)
Join(parts, sep) ==
    IF parts = <<>> THEN ""
    ELSE IF Len(parts) = 1 THEN parts[1]
    ELSE parts[1] \o sep \o Join(Tail(parts), sep)

\* a < b as Python compares strings: by code point, a proper prefix first
RECURSIVE StrLess(_, _)
StrLess(a, b) ==
    IF b = "" THEN FALSE
    ELSE IF a = "" THEN TRUE
    ELSE IF CharAt(a, 1) = CharAt(b, 1)
         THEN StrLess(SubSeq(a, 2, Len(a)), SubSeq(b, 2, Len(b)))
         ELSE Ord(CharAt(a, 1)) < Ord(CharAt(b, 1))

----------------------------------------------------------------------------
(* normalize_doi *)

\* re.sub(r"v\d+$", "", s): "$" is the end of s, or the place before a final newline
StripVersion(s) ==
    LET nl   == s # "" /\ CharAt(s, Len(s)) = "\n"
        body == IF nl THEN SubSeq(s, 1, Len(s) - 1) ELSE s
        n    == TrailLen(body, Digits)
        hit  == n >= 1 /\ Len(body) > n /\ CharAt(body, Len(body) - n) = "v"
    IN  IF hit
        THEN SubSeq(body, 1, Len(body) - n - 1) \o (IF nl THEN "\n" ELSE "")
        ELSE s

normalize_doi(d) == StripVersion(RStrip(Lower(d), "/"))

----------------------------------------------------------------------------
(* extract_dois *)

\* [^\s,;]
DoiBodyChars == (Printable \ Whitespace) \ {",", ";"}

MinDoiDigits == 4
MaxDoiDigits == 9

\* the end of the match of 10\.\d{4,9}/[^\s,;]+ that starts at p, or 0
DoiMatchEnd(s, p) ==
    IF ~LitAt(s, p, "10.") THEN 0
    ELSE LET n == RunLen(s, p + 3, Digits)
             m == RunLen(s, p + 4 + n, DoiBodyChars)
         IN  IF /\ n >= MinDoiDigits
                /\ n <= MaxDoiDigits
                /\ LitAt(s, p + 3 + n, "/")
                /\ m >= 1
             THEN p + 3 + n + m
             ELSE 0

\* re.finditer: the matches from position p on, leftmost first, not overlapping
RECURSIVE DoiMatches(_, _)
DoiMatches(s, p) ==
    IF p > Len(s) THEN {}
    ELSE LET e == DoiMatchEnd(s, p)
         IN  IF e = 0 THEN DoiMatches(s, p + 1)
             ELSE {SubSeq(s, p, e)} \cup DoiMatches(s, e + 1)

\* the normalized match and its shorter versions "/".join(parts[:i]), i in 2..len(parts)-1
DoiWithPrefixes(m) ==
    LET normalized == normalize_doi(m)
        parts      == Split(normalized, "/")
    IN  {normalized} \cup {Join(SubSeq(parts, 1, i), "/") : i \in 2..(Len(parts) - 1)}

\* re.search(lit + "(" + first + "[" + cls + "]+)"): group 1 of the leftmost match from p on, or ""
RECURSIVE SearchGroup(_, _, _, _, _)
SearchGroup(s, p, lit, first, cls) ==
    IF p > Len(s) THEN ""
    ELSE LET g == p + Len(lit)
             n == RunLen(s, g + Len(first), cls)
         IN  IF LitAt(s, p, lit \o first) /\ n >= 1
             THEN SubSeq(s, g, g + Len(first) + n - 1)
             ELSE SearchGroup(s, p + 1, lit, first, cls)

\* a variant whose pattern does not ask for the leading "s" of the article identifier
NatureGroupAnyArticle(u) == SearchGroup(u, 1, "nature.com/articles/", "", WordChars \cup {".", "-"})

NatureGroup(u) == SearchGroup(u, 1, "nature.com/articles/", "s", WordChars \cup {".", "-"})

ArxivGroup(u) == SearchGroup(u, 1, "arxiv.org/abs/", "", Digits \cup {"."})

extract_dois(u) ==
    IF u = "" THEN {}
    ELSE (UNION {DoiWithPrefixes(m) : m \in DoiMatches(u, 1)})
         \cup (IF NatureGroup(u) # "" THEN {normalize_doi("10.1038/" \o NatureGroup(u))} ELSE {})
         \cup (IF ArxivGroup(u) # "" THEN {"10.48550/arxiv." \o ArxivGroup(u)} ELSE {})

\* a variant that never reports an overlap
doi_overlap_never(dois_a, dois_b) == FALSE

doi_overlap(dois_a, dois_b) == (dois_a \cap dois_b) # {}

----------------------------------------------------------------------------
(* normalize_doi applied to a DOI string, and again to its own result *)

MaxDoiFrags == 3
MaxCalls == 2

DoiFrags == {"10.1101/", "ab", "v", "V", "1", "23", "/"}

DoiInputs == Concats(DoiFrags, MaxDoiFrags)

InitNormalize ==
    /\ raw_doi \in DoiInputs
    /\ doi = raw_doi
    /\ calls = 0
    /\ IdleExtract
    /\ IdleMap
    /\ IdleFetch
    /\ IdleMerge
    /\ IdlePatch

Normalize ==
    /\ calls < MaxCalls
    /\ doi' = normalize_doi(doi)
    /\ calls' = calls + 1
    /\ UNCHANGED <<raw_doi, extVars, mapVars, fetchVars, mergeVars, patchVars>>

NextNormalize == Normalize

SpecNormalize == InitNormalize /\ [][NextNormalize]_vars

\* C3: DOI normalization is idempotent: normalizing the result of normalize_doi
\* again gives the same string, normalize(normalize(x)) = normalize(x).
C3_Idempotent == calls >= 2 => doi = normalize_doi(raw_doi)

----------------------------------------------------------------------------
(* extract_dois applied to a URL *)

MaxUrlFrags == 3

UrlFrags ==
    {"doi.org/", "10.1038/", "10.123/", "s41586-1", "nature.com/articles/",
     "arxiv.org/abs/", "2301.1v2", "/", "x"}

UrlInputs == Concats(UrlFrags, MaxUrlFrags)

InitExtract ==
    /\ url \in UrlInputs
    /\ dois = {}
    /\ extracted = FALSE
    /\ IdleNormalize
    /\ IdleMap
    /\ IdleFetch
    /\ IdleMerge
    /\ IdlePatch

ExtractDois ==
    /\ ~extracted
    /\ dois' = extract_dois(url)
    /\ extracted' = TRUE
    /\ UNCHANGED <<url, normVars, mapVars, fetchVars, mergeVars, patchVars>>

NextExtract == ExtractDois

SpecExtract == InitExtract /\ [][NextExtract]_vars

\* u holds "10.", then 4 to 9 digits, a "/", and a run of characters
HasDoiLike(u) ==
    \E p \in 1..Len(u), n \in 4..9 :
        /\ LitAt(u, p, "10.")
        /\ p + 4 + n <= Len(u)
        /\ \A k \in 3..(2 + n) : CharAt(u, p + k) \in Digits
        /\ CharAt(u, p + 3 + n) = "/"
        /\ CharAt(u, p + 4 + n) \notin (Whitespace \cup {",", ";"})

\* u holds a Nature article path, nature.com/articles/s...
HasNatureArticle(u) ==
    \E p \in 1..Len(u) :
        /\ LitAt(u, p, "nature.com/articles/s")
        /\ p + 21 <= Len(u)
        /\ CharAt(u, p + 21) \in WordChars \cup {".", "-"}

\* u holds an arXiv abstract path, arxiv.org/abs/<digits and dots>
HasArxivAbs(u) ==
    \E p \in 1..Len(u) :
        /\ LitAt(u, p, "arxiv.org/abs/")
        /\ p + 14 <= Len(u)
        /\ CharAt(u, p + 14) \in Digits \cup {"."}

\* C4 as stated: a URL with no DOI-like substring (and the empty URL) yields the empty set.
C4_NoDoiLikeGivesEmpty == (extracted /\ ~HasDoiLike(url)) => dois = {}

\* C4 amended: a URL with no DOI-like substring that is neither a Nature article
\* URL nor an arXiv abstract URL (and the empty URL) yields the empty set.
C4_NoPatternGivesEmpty ==
    (extracted /\ ~HasDoiLike(url) /\ ~HasNatureArticle(url) /\ ~HasArxivAbs(url))
        => dois = {}

\* a URL that comes close to a DOI ("10." with too few digits) was scanned and gave nothing
C4_Witness ==
    /\ extracted
    /\ \E p \in 1..Len(url) : LitAt(url, p, "10.123/x")
    /\ ~HasDoiLike(url) /\ ~HasNatureArticle(url) /\ ~HasArxivAbs(url)
    /\ dois = {}

----------------------------------------------------------------------------
(* paper_to_news_item *)

\* A key of a JSON record: missing, null, or holding a value.
Absent == [k |-> "absent", v |-> ""]
Null == [k |-> "null", v |-> ""]
Val(x) == [k |-> "val", v |-> x]

\* paper.get(key, default) of a string-valued key: ok is FALSE for None
Get(field, default) ==
    IF field.k = "absent" THEN [ok |-> TRUE, v |-> default]
    ELSE IF field.k = "null" THEN [ok |-> FALSE, v |-> ""]
    ELSE [ok |-> TRUE, v |-> field.v]

\* the truth value of paper.get(key) for a string-valued key
Truthy(field) == field.k = "val" /\ field.v # ""

\* what the function does: returns an item, returns None, or raises
Returns(it) == [k |-> "item", v |-> it]
ReturnsNone == [k |-> "none", v |-> Idle]
Raises(exc) == [k |-> "raise", v |-> exc]

paper_to_news_item(p) ==
    LET got_title == Get(p.title, "")
    IN
    IF ~got_title.ok THEN Raises("AttributeError")      \* None has no strip()
    ELSE
    LET title == Strip(got_title.v)
        date_str ==
            IF Truthy(p.publicationDate) THEN p.publicationDate.v
            ELSE ToStr(p.year.v) \o "-01-01"
        ext_doi == IF p.externalIds.k = "val" THEN p.externalIds.DOI ELSE ""
        ext_arxiv == IF p.externalIds.k = "val" THEN p.externalIds.ArXiv ELSE ""
        best_url ==
            IF ext_doi # "" THEN "https://doi.org/" \o ext_doi
            ELSE IF ext_arxiv # "" THEN "https://arxiv.org/abs/" \o ext_arxiv
            ELSE IF p.url.k = "val" THEN p.url.v ELSE ""
        text ==
            IF Truthy(p.venue)
            THEN "Our paper \"" \o title \o "\" published in " \o p.venue.v
            ELSE "Our paper \"" \o title \o "\" is available"
    IN
    IF title = "" THEN ReturnsNone
    ELSE IF ~Truthy(p.publicationDate) /\ ~(p.year.k = "val" /\ p.year.v # 0) THEN ReturnsNone
    ELSE Returns([date |-> date_str, text |-> text, url |-> best_url,
                  source |-> "semantic_scholar",
                  paper_id |-> IF p.paperId.k = "val" THEN p.paperId.v ELSE ""])

OptYears == {[k |-> "absent", v |-> 0], [k |-> "null", v |-> 0], Val(0), Val(2023)}

OptExternalIds ==
    {[k |-> "absent", DOI |-> "", ArXiv |-> ""], [k |-> "null", DOI |-> "", ArXiv |-> ""]}
    \cup [k : {"val"}, DOI : {"", "10.1038/s41586-1"}, ArXiv : {"", "2301.1"}]

RawPapers ==
    [paperId : {Val("p1")},
     title : {Absent, Null, Val(""), Val(" "), Val(" T ")},
     publicationDate : {Absent, Null, Val(""), Val("2024-03-05")},
     year : OptYears,
     externalIds : OptExternalIds,
     url : {Absent, Null, Val("https://s2.org/p1")},
     venue : {Absent, Null, Val(""), Val("Nature")}]

InitMap ==
    /\ paper \in RawPapers
    /\ item = ReturnsNone
    /\ mapped = FALSE
    /\ IdleNormalize /\ IdleExtract /\ IdleFetch /\ IdleMerge /\ IdlePatch

MapPaper ==
    /\ ~mapped
    /\ item' = paper_to_news_item(paper)
    /\ mapped' = TRUE
    /\ UNCHANGED <<paper, normVars, extVars, fetchVars, mergeVars, patchVars>>

NextMap == MapPaper

SpecMap == InitMap /\ [][NextMap]_vars

\* the record has no usable title: none, or only whitespace
LacksTitle(p) == p.title.k # "val" \/ \A i \in 1..Len(p.title.v) : CharAt(p.title.v, i) \in Whitespace

\* the record has neither a publication date nor a year
LacksDate(p) ==
    /\ p.publicationDate.k # "val" \/ p.publicationDate.v = ""
    /\ p.year.k # "val" \/ p.year.v = 0

\* C8: paper_to_news_item is total: for every record it returns an item or nothing and
\* never raises, and it returns nothing exactly when the record lacks a usable title
\* or lacks both a publication date and a year.
C8_TotalMapping ==
    mapped => /\ item.k # "raise"
              /\ item.k = "none" <=> (LacksTitle(paper) \/ LacksDate(paper))

----------------------------------------------------------------------------
(* fetch_papers: one query per author, in list order *)

AUTHOR_IDS == <<"2275825472", "1944920685", "2127367730", "2283043684">>

MaxPapersPerAuthor == 2

\* the records a response may hold; paperId "" is a record without an identifier
FetchedPapers == [paperId : {"", "p1", "p2", "p3"}, title : {"A", "B"}]

Responses == SeqsUpTo(FetchedPapers, MaxPapersPerAuthor)

\* papers[pid] = paper for each record of data whose pid is not yet a key
RECURSIVE AddPapers(_, _)
AddPapers(dict, data) ==
    IF data = <<>> THEN dict
    ELSE LET rec == Head(data)
             pid == rec.paperId
             known == \E i \in 1..Len(dict) : dict[i].paperId = pid
         IN  AddPapers(IF pid # "" /\ ~known THEN Append(dict, rec) ELSE dict, Tail(data))

\* after the last author the loop ends and the function returns list(papers.values())
AfterQuery == IF author_idx = Len(AUTHOR_IDS) THEN "returned" ELSE "query"

InitFetch ==
    /\ author_idx = 1
    /\ papers = <<>>
    /\ warnings = <<>>
    /\ fetch_pc = "query"
    /\ IdleNormalize /\ IdleExtract /\ IdleMap /\ IdleMerge /\ IdlePatch

\* the request succeeds and the body decodes to a record with a "data" list
QueryOk ==
    /\ fetch_pc = "query"
    /\ \E data \in Responses : papers' = AddPapers(papers, data)
    /\ author_idx' = author_idx + 1
    /\ fetch_pc' = AfterQuery
    /\ UNCHANGED <<warnings, normVars, extVars, mapVars, mergeVars, patchVars>>

\* urlopen raises URLError (no connection, HTTP error status): caught, warned
QueryUrlError ==
    /\ fetch_pc = "query"
    /\ warnings' = Append(warnings, AUTHOR_IDS[author_idx])
    /\ author_idx' = author_idx + 1
    /\ fetch_pc' = AfterQuery
    /\ UNCHANGED <<papers, normVars, extVars, mapVars, mergeVars, patchVars>>

\* resp.read() times out or breaks off (an OSError that is no URLError), or the body is
\* no JSON (a ValueError): no except clause matches, the exception leaves fetch_papers
QueryRaises ==
    /\ fetch_pc = "query"
    /\ \E exc \in {"socket.timeout", "JSONDecodeError"} : fetch_pc' = "raised"
    /\ UNCHANGED <<author_idx, papers, warnings, normVars, extVars, mapVars, mergeVars, patchVars>>

NextFetch == QueryOk \/ QueryUrlError \/ QueryRaises

SpecFetch == InitFetch /\ [][NextFetch]_vars

\* C6: each author is queried once, in order; a failed query (at connection, read or
\* decoding time) is caught and warned about and the loop goes on, so fetch_papers
\* always returns the papers of the successful queries, one record per identifier.
C6_FailuresCaught ==
    /\ fetch_pc # "raised"
    /\ fetch_pc = "returned" =>
        /\ author_idx = Len(AUTHOR_IDS) + 1
        /\ \A i, j \in 1..Len(papers) : papers[i].paperId = papers[j].paperId => i = j

----------------------------------------------------------------------------
(* render_news_html and update_index_html *)

MARKER_START == "<!-- NEWS_START -->"
MARKER_END == "<!-- NEWS_END -->"

\* one <li> entry; an item without the key link_text is rendered with "here"
RenderItem(it) ==
    LET link_text == IF "link_text" \in DOMAIN it THEN it.link_text ELSE "here"
        link == " <a href=\"" \o it.url \o "\"> " \o link_text \o " </a>."
        head == "                        <li>\n                            <strong>"
                    \o it.date \o "</strong> - " \o it.text
        foot == "\n                        </li>"
    IN  IF it.url # "" THEN head \o link \o foot ELSE head \o foot

render_news_html(items) ==
    Join(<<"                <!-- NEWS_START -->",
           "                <div class=\"news\">",
           "                    <h2>News</h2>",
           "                    <ul>">>
         \o [i \in 1..Len(items) |-> RenderItem(items[i])]
         \o <<"                    </ul>",
              "                </div>",
              "                <!-- NEWS_END -->">>, "\n")

OctDigits == CharsOf("01234567")

AsciiLetters == CharsOf(UpperCase) \cup CharsOf(LowerCase)

\* the code points of the characters that a string of the model can hold
CharCodes == {9, 10, 12, 13} \cup (32..95) \cup (97..126)

\* chr(n) for n in CharCodes
Chr(n) ==
    CASE n = 9 -> "\t" [] n = 10 -> "\n" [] n = 12 -> "\f" [] n = 13 -> "\r"
      [] n >= 32 /\ n <= 95 -> CharAt(AsciiLow, n - 31)
      [] n >= 97 /\ n <= 126 -> CharAt(AsciiHigh, n - 96)

\* int(s, 8) of a string of octal digits
RECURSIVE OctVal(_)
OctVal(s) ==
    IF s = "" THEN 0
    ELSE 8 * OctVal(SubSeq(s, 1, Len(s) - 1)) + (Ord(CharAt(s, Len(s))) - 48)

\* the parts of a parsed replacement template: literal text, the whole match (group 0),
\* or a character that a string of the model cannot hold (\a, \b, \v, an octal escape)
Lit(s) == [k |-> "lit", s |-> s]
WholeMatch == [k |-> "group", s |-> ""]
Outside == [k |-> "outside", s |-> ""]

CodePart(n) == IF n \in CharCodes THEN Lit(Chr(n)) ELSE Outside

Parsed(parts) == [k |-> "ok", parts |-> parts]
Failed(exc) == [k |-> exc, parts |-> <<>>]

\* part, followed by the parse of the rest
Then(part, rest) == IF rest.k = "ok" THEN Parsed(<<part>> \o rest.parts) ELSE rest

\* str.isidentifier() on ASCII
IsIdentifier(name) ==
    /\ name # ""
    /\ CharAt(name, 1) \in AsciiLetters \cup {"_"}
    /\ \A i \in 1..Len(name) : CharAt(name, i) \in WordChars

\* int(name) succeeds and is 0: optional blanks around, an optional sign, digits 0
\* with single underscores between them
IsZeroInt(name) ==
    LET s == Strip(name)
        body == IF s # "" /\ CharAt(s, 1) \in {"+", "-"} THEN SubSeq(s, 2, Len(s)) ELSE s
    IN  /\ body # ""
        /\ \A i \in 1..Len(body) :
            \/ CharAt(body, i) = "0"
            \/ /\ CharAt(body, i) = "_"
               /\ i > 1 /\ i < Len(body)
               /\ CharAt(body, i - 1) = "0" /\ CharAt(body, i + 1) = "0"

\* re._parser.parse_template(t, pattern) from position p on, for the marker pattern, which
\* has no group: the parts of the template, or the exception that the parser raises.
\* A backslash starts a group reference (\g<name>, \1), an octal escape, one of the
\* escapes \a \b \f \n \r \t \v \\, or, before a character that is no letter, itself.
RECURSIVE parse_template(_, _)
parse_template(t, p) ==
    IF p > Len(t) THEN Parsed(<<>>)
    ELSE IF CharAt(t, p) # "\\"
    THEN LET k == FindLit(t, "\\", p)
         IN  IF k = 0 THEN Parsed(<<Lit(SubSeq(t, p, Len(t)))>>)
             ELSE Then(Lit(SubSeq(t, p, k - 1)), parse_template(t, k))
    ELSE IF p = Len(t) THEN Failed("re.error")
    ELSE LET c == CharAt(t, p + 1)
             oct(i) == p + i <= Len(t) /\ CharAt(t, p + i) \in OctDigits
         IN  IF c = "g"
             THEN LET close == FindLit(t, ">", p + 3)
                      name == SubSeq(t, p + 3, close - 1)
                  IN  IF ~LitAt(t, p + 2, "<") \/ close = 0 \/ close = p + 3
                      THEN Failed("re.error")
                      ELSE IF IsIdentifier(name) THEN Failed("IndexError")
                      ELSE IF IsZeroInt(name)
                      THEN Then(WholeMatch, parse_template(t, close + 1))
                      ELSE Failed("re.error")
             ELSE IF c = "0"
             THEN LET n == IF oct(2) THEN (IF oct(3) THEN 3 ELSE 2) ELSE 1
                  IN  Then(CodePart(OctVal(SubSeq(t, p + 1, p + n)) % 256),
                           parse_template(t, p + n + 1))
             ELSE IF c \in Digits
             THEN IF oct(1) /\ oct(2) /\ oct(3) /\ OctVal(SubSeq(t, p + 1, p + 3)) <= 255
                  THEN Then(CodePart(OctVal(SubSeq(t, p + 1, p + 3))),
                            parse_template(t, p + 4))
                  ELSE Failed("re.error")
             ELSE IF c \in {"a", "b", "v"} THEN Then(Outside, parse_template(t, p + 2))
             ELSE IF c = "f" THEN Then(Lit("\f"), parse_template(t, p + 2))
             ELSE IF c = "n" THEN Then(Lit("\n"), parse_template(t, p + 2))
             ELSE IF c = "r" THEN Then(Lit("\r"), parse_template(t, p + 2))
             ELSE IF c = "t" THEN Then(Lit("\t"), parse_template(t, p + 2))
             ELSE IF c = "\\" THEN Then(Lit("\\"), parse_template(t, p + 2))
             ELSE IF c \in AsciiLetters THEN Failed("re.error")
             ELSE Then(Lit("\\" \o c), parse_template(t, p + 2))

\* the template expands to a string of the model
Representable(tpl) == \A i \in 1..Len(tpl.parts) : tpl.parts[i].k # "outside"

\* re._parser.expand_template: the literals, with the matched text for group 0
RECURSIVE expand_template(_, _)
expand_template(parts, whole) ==
    IF parts = <<>> THEN ""
    ELSE (IF Head(parts).k = "group" THEN whole ELSE Head(parts).s)
            \o expand_template(Tail(parts), whole)

\* the leftmost match of the marker pattern in s from position p on: a is where its
\* MARKER_START begins and b where the nearest MARKER_END behind it begins (".*?" with
\* DOTALL); b = 0 when there is no match
NextSpan(s, p) ==
    LET a == FindLit(s, MARKER_START, p)
    IN  [a |-> a, b |-> IF a = 0 THEN 0 ELSE FindLit(s, MARKER_END, a + Len(MARKER_START))]

\* pattern.sub(repl, s) from position p on, parts being the parsed repl and span the
\* leftmost match from p on: every match becomes the expansion of the template, and the
\* scan goes on behind it
RECURSIVE SubFrom(_, _, _, _)
SubFrom(s, p, span, parts) ==
    LET stop == span.b + Len(MARKER_END)
    IN  IF span.b = 0 THEN SubSeq(s, p, Len(s))
        ELSE SubSeq(s, p, span.a - 1) \o expand_template(parts, SubSeq(s, span.a, stop - 1))
                \o SubFrom(s, stop, NextSpan(s, stop), parts)

SubSpans(s, p, parts) == SubFrom(s, p, NextSpan(s, p), parts)

\* pattern.search(s)
HasSpan(s) == NextSpan(s, 1).b # 0

\* Path.read_text() of a file that holds the text file: universal newlines, "\r\n" and
\* "\r" are read as "\n"
RECURSIVE read_text(_)
read_text(file) ==
    LET k == FindLit(file, "\r", 1)
    IN  IF k = 0 THEN file
        ELSE SubSeq(file, 1, k - 1) \o "\n"
                \o read_text(SubSeq(file, IF LitAt(file, k + 1, "\n") THEN k + 2 ELSE k + 1,
                                    Len(file)))

\* update_index_html from line 224 on, doc being the content read from index.html and
\* tpl the parse of the fragment (made when pattern.sub is reached): what the function
\* returns or raises, and what the file holds afterwards
Patch(file, doc, tpl) ==
    LET first == NextSpan(doc, 1)
        new_content == SubFrom(doc, 1, first, tpl.parts)
    IN  IF first.b = 0 THEN [ret |-> "False", file |-> file]
        ELSE IF tpl.k # "ok" THEN [ret |-> tpl.k, file |-> file]
        ELSE IF new_content = doc THEN [ret |-> "False", file |-> file]
        ELSE [ret |-> "True", file |-> new_content]

\* update_index_html(fragment) on index.html holding file
update_index_html(file, fragment) ==
    Patch(file, read_text(file), parse_template(fragment, 1))

\* the fragment is one the model can patch into doc: where the template is read, it
\* names no character outside the model's strings
Patchable(doc, tpl) == IF Representable(tpl) THEN TRUE ELSE ~HasSpan(doc)

\* update_index_html(fragment) with its local: the content read from index.html, which
\* holds file, what the function returns or raises, and the file afterwards
Patched(file, fragment) ==
    LET doc == read_text(file)
        tpl == parse_template(fragment, 1)
    IN  [content |-> doc, patchable |-> Patchable(doc, tpl), out |-> Patch(file, doc, tpl)]

MaxHtmlFrags == 6

HtmlFrags == {MARKER_START, MARKER_END, "a\n"}

HtmlInputs == Concats(HtmlFrags, MaxHtmlFrags)

RenderedItems ==
    {<<>>,
     <<[date |-> "2024-01-01", text |-> "t", url |-> "https://x.org/new"]>>,
     <<[date |-> "2024-01-01", text |-> "t", url |-> "https://x.org/new", link_text |-> "pdf"]>>,
     <<[date |-> "2024-01-01", text |-> "C:\\dir", url |-> ""]>>}

\* a fragment as main passes it, or one that starts at the marker itself; the latter
\* also with an escape, a reference to the match, to a group and to a group name
NewsHtmlInputs ==
    {render_news_html(items) : items \in RenderedItems}
    \cup {MARKER_START \o f \o MARKER_END : f \in {"a", "a\\nb", "a\\\\b", "\\1", "\\g<x>"}}
    \cup {"\\g<0>"}

InitPatch ==
    /\ index_html \in HtmlInputs
    /\ news_html \in NewsHtmlInputs
    /\ content = ""
    /\ ret = "pending"
    /\ IdleNormalize /\ IdleExtract /\ IdleMap /\ IdleFetch /\ IdleMerge

UpdateIndexHtml ==
    /\ ret = "pending"
    /\ \E upd \in {Patched(index_html, news_html)} :
        /\ upd.patchable
        /\ content' = upd.content
        /\ ret' = upd.out.ret
        /\ index_html' = upd.out.file
    /\ UNCHANGED <<news_html, normVars, extVars, mapVars, fetchVars, mergeVars>>

NextPatch == UpdateIndexHtml

SpecPatch == InitPatch /\ [][NextPatch]_vars

\* the end marker nearest behind the start marker at a, or 0
NearestEnd(c, a) == FindLit(c, MARKER_END, a + Len(MARKER_START))

\* the first position behind the span that starts at a
SpanStop(c, a) == NearestEnd(c, a) + Len(MARKER_END)

\* C7 as stated: only the first span, from the first start marker to the nearest end
\* marker behind it, is replaced by the fragment; all text outside it, a later marker
\* pair included, stays as it was.
C7_OnlyFirstSpanReplaced ==
    (ret # "pending" /\ HasSpan(content)) =>
        LET a == FindLit(content, MARKER_START, 1)
        IN  index_html = SubSeq(content, 1, a - 1) \o news_html
                            \o SubSeq(content, SpanStop(content, a), Len(content))

----------------------------------------------------------------------------
(* merge_news, and main around it: load, merge, save, render, patch *)

MaxItems == 3

MergeUrls ==
    {"", "https://doi.org/10.1038/s41586-1", "https://www.nature.com/articles/s41586-1",
     "https://x.org/new", "https://x.org/new/"}

\* the items of the model: every URL on the later date; on the earlier date an item
\* without URL, one with, and one whose text holds a backslash
NewsItems ==
    [date : {"2024-01-01"}, text : {"t"}, url : MergeUrls]
    \cup [date : {"2023-06-01"}, text : {"t"}, url : {"", "https://x.org/new"}]
    \cup {[date |-> "2023-06-01", text |-> "C:\\dir", url |-> ""]}

\* extract_dois is a pure function: its values on the URLs of the model, computed once
KnownDois == [u \in MergeUrls |-> extract_dois(u)]

\* the call extract_dois(url) as merge_news makes it
DoisOf(u) == IF u \in DOMAIN KnownDois THEN KnownDois[u] ELSE extract_dois(u)

\* url.rstrip("/")
Trim(u) == RStrip(u, "/")

\* a variant that drops a manual item whose URL an earlier manual item has
RECURSIVE MergeSeedDedup(_)
MergeSeedDedup(items) ==
    IF items = <<>>
    THEN [existing_urls |-> {}, existing_dois |-> {}, merged |-> <<>>, new_count |-> 0]
    ELSE LET st == MergeSeedDedup(SubSeq(items, 1, Len(items) - 1))
             it == items[Len(items)]
         IN  IF it.url = "" THEN [st EXCEPT !.merged = Append(@, it)]
             ELSE IF Trim(it.url) \in st.existing_urls THEN st
             ELSE [st EXCEPT !.existing_urls = @ \cup {Trim(it.url)},
                             !.existing_dois = @ \cup DoisOf(it.url),
                             !.merged = Append(@, it)]

\* a variant that seeds existing_urls with the URLs as written, not trimmed
RECURSIVE MergeSeedNoTrim(_)
MergeSeedNoTrim(items) ==
    IF items = <<>>
    THEN [existing_urls |-> {}, existing_dois |-> {}, merged |-> <<>>, new_count |-> 0]
    ELSE LET st == MergeSeedNoTrim(SubSeq(items, 1, Len(items) - 1))
             it == items[Len(items)]
         IN  IF it.url # ""
             THEN [st EXCEPT !.existing_urls = @ \cup {it.url},
                             !.existing_dois = @ \cup DoisOf(it.url),
                             !.merged = Append(@, it)]
             ELSE [st EXCEPT !.merged = Append(@, it)]

\* lines 150-160: the tracking sets seeded from the manual items, merged = list(manual)
RECURSIVE MergeSeed(_)
MergeSeed(items) ==
    IF items = <<>>
    THEN [existing_urls |-> {}, existing_dois |-> {}, merged |-> <<>>, new_count |-> 0]
    ELSE LET st == MergeSeed(SubSeq(items, 1, Len(items) - 1))
             it == items[Len(items)]
         IN  IF it.url # ""
             THEN [st EXCEPT !.existing_urls = @ \cup {Trim(it.url)},
                             !.existing_dois = @ \cup DoisOf(it.url),
                             !.merged = Append(@, it)]
             ELSE [st EXCEPT !.merged = Append(@, it)]

\* a variant that appends an item without recording its URL and DOIs
MergeAutoUntracked(st, it) ==
    LET normalized == Trim(it.url)
        item_dois == DoisOf(it.url)
    IN  IF it.url = "" THEN st
        ELSE IF normalized \in st.existing_urls THEN st
        ELSE IF doi_overlap(item_dois, st.existing_dois) THEN st
        ELSE [st EXCEPT !.merged = Append(@, it), !.new_count = @ + 1]

\* lines 162-178: one auto item, skipped or appended
MergeAuto(st, it) ==
    LET normalized == Trim(it.url)
        item_dois == DoisOf(it.url)
    IN  IF it.url = "" THEN st
        ELSE IF normalized \in st.existing_urls THEN st
        ELSE IF doi_overlap(item_dois, st.existing_dois) THEN st
        ELSE [existing_urls |-> st.existing_urls \cup {normalized},
              existing_dois |-> st.existing_dois \cup item_dois,
              merged |-> Append(st.merged, it),
              new_count |-> st.new_count + 1]

\* lines 161-178: the auto items in input order
RECURSIVE MergeLoop(_, _)
MergeLoop(st, auto) ==
    IF auto = <<>> THEN st
    ELSE MergeLoop(MergeAuto(st, Head(auto)), Tail(auto))

\* a variant that places x before the entries of its own date (ties come out reversed)
InsertBeforeTies(sorted, x) ==
    LET notEarlier == {i \in 1..Len(sorted) : ~StrLess(x.date, sorted[i].date)}
        at == IF notEarlier = {} THEN Len(sorted) + 1
              ELSE CHOOSE i \in notEarlier : \A j \in notEarlier : i <= j
    IN  SubSeq(sorted, 1, at - 1) \o <<x>> \o SubSeq(sorted, at, Len(sorted))

\* x placed behind the entries whose date is not smaller than its own
InsertByDateDesc(sorted, x) ==
    LET later == {i \in 1..Len(sorted) : StrLess(sorted[i].date, x.date)}
        at == IF later = {} THEN Len(sorted) + 1 ELSE CHOOSE i \in later : \A j \in later : i <= j
    IN  SubSeq(sorted, 1, at - 1) \o <<x>> \o SubSeq(sorted, at, Len(sorted))

\* line 184: list.sort(key=date, reverse=True), a stable sort
RECURSIVE SortByDateDesc(_)
SortByDateDesc(items) ==
    IF items = <<>> THEN <<>>
    ELSE InsertByDateDesc(SortByDateDesc(SubSeq(items, 1, Len(items) - 1)), items[Len(items)])

\* the locals of merge_news when it returns
MergeState(man, auto) == MergeLoop(MergeSeed(man), auto)

merge_news(man, auto) == SortByDateDesc(MergeState(man, auto).merged)

\* index.html before the first run: with one marker pair, and without markers
IndexDocs ==
    {"<html>\n" \o MARKER_START \o "old" \o MARKER_END \o "\n</html>\n",
     "<html>\n</html>\n"}

InitMerge ==
    /\ news_json \in SeqsUpTo(NewsItems, MaxItems)
    /\ auto_items \in SeqsUpTo(NewsItems, MaxItems - Len(news_json))
    /\ index_html \in IndexDocs
    /\ dry_run = FALSE
    /\ main_pc = "start"
    /\ stored = FALSE
    /\ reloaded = FALSE
    /\ edited = FALSE
    /\ manual = <<>>
    /\ existing_urls = {}
    /\ existing_dois = {}
    /\ merged = <<>>
    /\ news_html = ""
    /\ content = ""
    /\ ret = "pending"
    /\ IdleNormalize /\ IdleExtract /\ IdleMap /\ IdleFetch

\* main from line 256 to 266, man being the list load_news returned and auto the list
\* made of the fetched papers (lines 250-254): the locals of merge_news at its return, the
\* merged list and the fragment
main(man, auto) ==
    LET st == MergeState(man, auto)
        result == SortByDateDesc(st.merged)
    IN  [st |-> st, merged |-> result, news_html |-> render_news_html(result)]

\* main has returned or has ended with an exception
Returned == main_pc \in {"done", "raised"}

\* main up to the call of fetch_papers (lines 240-247): the flag is read, load_news
\* reads data/news.json, and the process waits for the responses. A further run is
\* followed when news.json holds the list a run has stored, and none after that one.
StartMain ==
    /\ main_pc = "start" \/ (Returned /\ stored /\ ~reloaded)
    /\ \E dry \in BOOLEAN : dry_run' = dry
    /\ manual' = news_json
    /\ reloaded' = stored
    /\ edited' = FALSE
    /\ main_pc' = "waiting"
    /\ existing_urls' = {}
    /\ existing_dois' = {}
    /\ merged' = <<>>
    /\ news_html' = ""
    /\ content' = ""
    /\ ret' = "pending"
    /\ UNCHANGED <<news_json, auto_items, stored, index_html,
                   normVars, extVars, mapVars, fetchVars>>

\* the entry that another writer of data/news.json adds
EditItems == {[date |-> "2023-06-01", text |-> "t", url |-> "https://x.org/new"]}

\* another writer stores a list in data/news.json while main waits in fetch_papers. One
\* store is followed, in a run that started from a list no run had stored; a store
\* between two runs is a different list at the start.
EditNews ==
    /\ main_pc = "waiting"
    /\ ~edited
    /\ ~reloaded
    /\ \E it \in EditItems : news_json' = Append(news_json, it)
    /\ edited' = TRUE
    /\ stored' = FALSE
    /\ UNCHANGED <<auto_items, dry_run, main_pc, reloaded, manual, existing_urls,
                   existing_dois, merged, index_html, news_html, content, ret,
                   normVars, extVars, mapVars, fetchVars>>

\* main from the return of fetch_papers on (lines 248-276), over the list it loaded
\* before the wait: merge_news, the write of data/news.json unless --dry-run is given,
\* render_news_html, and then update_index_html or, on a dry run, the print of the
\* fragment. An exception of update_index_html ends main after news.json is written.
FinishMain ==
    /\ main_pc = "waiting"
    /\ \E run \in {main(manual, auto_items)} :
        /\ existing_urls' = run.st.existing_urls
        /\ existing_dois' = run.st.existing_dois
        /\ merged' = run.merged
        /\ news_html' = run.news_html
        /\ edited' = FALSE
        /\ IF dry_run
           THEN /\ main_pc' = "done"
                /\ ret' = "not called"
                /\ UNCHANGED <<news_json, stored, index_html, content>>
           ELSE \E upd \in {Patched(index_html, run.news_html)} :
                /\ upd.patchable
                /\ news_json' = run.merged
                /\ stored' = TRUE
                /\ content' = upd.content
                /\ ret' = upd.out.ret
                /\ index_html' = upd.out.file
                /\ main_pc' = IF upd.out.ret \in {"True", "False"}
                              THEN "done" ELSE "raised"
    /\ UNCHANGED <<auto_items, dry_run, reloaded, manual,
                   normVars, extVars, mapVars, fetchVars>>

NextMerge == StartMain \/ EditNews \/ FinishMain

SpecMerge == InitMerge /\ [][NextMerge]_vars

Range(seq) == {seq[i] : i \in 1..Len(seq)}

Count(seq, x) == Cardinality({i \in 1..Len(seq) : seq[i] = x})

SameBag(s, t) == Len(s) = Len(t) /\ \A x \in Range(s) \cup Range(t) : Count(s, x) = Count(t, x)

\* x and y have the same URL up to trailing slashes, or a DOI in common
Duplicates(x, y) ==
    \/ x.url # "" /\ y.url # "" /\ Trim(x.url) = Trim(y.url)
    \/ DoisOf(x.url) \cap DoisOf(y.url) # {}

\* the auto items among the first k that the rule of C9 accepts: an item with a URL
\* that duplicates no manual item and no accepted earlier auto item
RECURSIVE AcceptedUpTo(_, _, _)
AcceptedUpTo(man, auto, k) ==
    IF k = 0 THEN {}
    ELSE LET prev == AcceptedUpTo(man, auto, k - 1)
         IN  IF /\ auto[k].url # ""
                /\ \A m \in Range(man) : ~Duplicates(m, auto[k])
                /\ \A j \in prev : ~Duplicates(auto[j], auto[k])
             THEN prev \cup {k}
             ELSE prev

\* the items of seq at the positions idx, in order
RECURSIVE Pick(_, _)
Pick(seq, idx) ==
    IF seq = <<>> THEN <<>>
    ELSE Pick(SubSeq(seq, 1, Len(seq) - 1), idx)
            \o (IF Len(seq) \in idx THEN <<seq[Len(seq)]>> ELSE <<>>)

\* the items of seq dated d, in order
RECURSIVE WithDate(_, _)
WithDate(seq, d) ==
    IF seq = <<>> THEN <<>>
    ELSE (IF Head(seq).date = d THEN <<Head(seq)>> ELSE <<>>) \o WithDate(Tail(seq), d)

\* the list before the sort as the claims describe it: the manual items, then the accepted auto items
Expected == manual \o Pick(auto_items, AcceptedUpTo(manual, auto_items, Len(auto_items)))

\* C1 as stated: the merged output holds no two items with the same URL up to trailing
\* slashes and no two items whose DOI sets intersect.
C1_NoDuplicates ==
    Returned => \A i, j \in 1..Len(merged) : i < j => ~Duplicates(merged[i], merged[j])

\* C1 amended: two output items with the same URL up to trailing slashes, or with
\* intersecting DOI sets, are both manual items (each manual item is kept as often as
\* the manual list holds it); an auto item never duplicates another output item.
C1_DuplicatesOnlyAmongManual ==
    Returned =>
        /\ \A m \in Range(manual) : Count(merged, m) = Count(manual, m)
        /\ \A i, j \in 1..Len(merged) :
            (i < j /\ Duplicates(merged[i], merged[j])) =>
                merged[i] \in Range(manual) /\ merged[j] \in Range(manual)

\* an auto item was suppressed as a duplicate and another one was appended
C1_Witness ==
    /\ Returned
    /\ Len(merged) > Len(manual)
    /\ \E k \in 1..Len(auto_items), m \in Range(manual) :
        auto_items[k] # m /\ Duplicates(m, auto_items[k]) /\ auto_items[k] \notin Range(merged)

\* C2: merge_news preserves the manual list: every manual item is in the output,
\* unchanged and as often as in the manual list, whatever the auto list holds.
C2_ManualPreserved ==
    Returned => \A m \in Range(manual) : Count(merged, m) = Count(manual, m)

\* a manual list with a repeated entry was merged with an auto list that added an item
C2_Witness ==
    /\ Returned
    /\ \E m \in Range(manual) : m.url # "" /\ Count(manual, m) = 2 /\ Count(merged, m) = 2
    /\ Len(merged) > Len(manual)

\* C5: the output is ordered by date, descending as strings, and items of equal date
\* keep their input order: the manual items first, then the accepted auto items.
C5_SortedStable ==
    Returned =>
        LET before == Expected
        IN  /\ \A i, j \in 1..Len(merged) : i < j => ~StrLess(merged[i].date, merged[j].date)
            /\ \A d \in {merged[i].date : i \in 1..Len(merged)}
                        \cup {before[i].date : i \in 1..Len(before)} :
                    WithDate(merged, d) = WithDate(before, d)

\* the sort moved an accepted item ahead of a manual one, and two different items tie
C5_Witness ==
    /\ Returned
    /\ merged # Expected
    /\ \E i, j \in 1..Len(merged) :
        i < j /\ merged[i].date = merged[j].date /\ merged[i] # merged[j]

\* C9: an auto item is appended exactly when it has a URL, its trimmed URL is that of no
\* manual item and of no accepted earlier auto item, and its DOI set meets that of no
\* manual item and of no accepted earlier auto item; the tracking sets hold the URLs
\* and DOIs of the manual and the accepted items only.
C9_AcceptedExactly ==
    Returned =>
        LET acc == AcceptedUpTo(manual, auto_items, Len(auto_items))
            kept == Range(manual) \cup {auto_items[k] : k \in acc}
        IN  /\ SameBag(merged, Expected)
            /\ existing_urls = {Trim(x.url) : x \in {y \in kept : y.url # ""}}
            /\ existing_dois = UNION {DoisOf(x.url) : x \in kept}

\* of two auto items that duplicate each other but no manual item, the first was
\* appended and the second skipped
C9_Witness ==
    /\ Returned
    /\ \E j, k \in 1..Len(auto_items) :
        /\ j < k
        /\ auto_items[j].url # auto_items[k].url
        /\ Duplicates(auto_items[j], auto_items[k])
        /\ auto_items[j] \in Range(merged) /\ auto_items[j] \notin Range(manual)
        /\ auto_items[k] \notin Range(merged)

\* C10: once a run has stored its merged list, a further run over the same fetched items
\* returns the stored list as it is, in the same order, and stores nothing new.
C10_RerunIsFixedPoint ==
    (reloaded /\ Returned) => merged = manual /\ (stored => news_json = manual)

\* the first run appended an auto item and stored the list; the second run left it alone
C10_Witness ==
    /\ reloaded /\ Returned /\ ~dry_run /\ news_json = manual
    /\ merged = manual
    /\ Len(merged) = MaxItems
    /\ \E k \in 1..Len(auto_items) :
        /\ auto_items[k] \in Range(merged)
        /\ \E i \in 1..Len(merged) : merged[i].date = auto_items[k].date /\ merged[i] # auto_items[k]

====
